---- MODULE Spec2Model ----
(***************************************************************************)
(* The cursor Provider of src/utils/cursor.rs: a cached State behind a     *)
(* reader/writer lock, a debounced set_cursor, and three storage backends  *)
(* (File, Memory, Redis).  Time is counted in whole seconds.               *)
(***************************************************************************)
EXTENDS Integers, Sequences, FiniteSets

VARIABLES
    config,     \* the Config the process is started with (kept across restarts)
    phase,      \* "stopped" | "constructed" (Provider::new done) | "ready"
    state,      \* Provider.state : State
    writer,     \* the holder of the exclusive side of the RwLock, or NoThread
    pc,         \* per thread: its position inside set_cursor
    arg,        \* per thread: the point passed to the set_cursor in progress
    began,      \* per thread: the instant its set_cursor in progress decided to write
    now,        \* the monotonic clock, Instant::now()
    file,       \* the file at FileConfig.path
    tmp,        \* the file at FileConfig.path + ".tmp"
    redis,      \* the value under RedisConfig.key
    loaded,     \* what the read_cursor of load_cursor returned
    last,       \* the last set_cursor call that returned, and the one before it
    got,        \* what the last get_cursor returned
    durable     \* the point of the last backend write that took effect (0: none)

vars == <<config, phase, state, writer, pc, arg, began, now, file, tmp, redis,
          loaded, last, got, durable>>

----------------------------------------------------------------------------
(* Bounds *)

MaxPoint == 2
MaxTime == 12

(* Duration::from_secs(10) *)
DebounceSecs == 10

Threads == {"t1", "t2"}
NoThread == "none"
Points == 1..MaxPoint
FirstPoint == CHOOSE p \in Points : \A q \in Points : p <= q
NoPoint == 0
Kinds == {"File", "Memory", "Redis"}

----------------------------------------------------------------------------
(* Result<PointArg, Error> and Result<(), Error> *)

Ok(p) == [ok |-> TRUE, point |-> p, err |-> ""]
Err(e) == [ok |-> FALSE, point |-> NoPoint, err |-> e]

(* Option<PointArg>: NoPoint stands for None *)
Some(p) == p
None == NoPoint

(* PointArg's Display and FromStr, and its serde_json form *)
to_string(p) == <<"slot", p>>
parse(s) == IF \E p \in Points : s = to_string(p)
            THEN Ok(CHOOSE p \in Points : s = to_string(p))
            ELSE Err("ParseError")
to_json(p) == <<"json", p>>
from_json(s) == IF \E p \in Points : s = to_json(p)
                THEN Ok(CHOOSE p \in Points : s = to_json(p))
                ELSE Err("ParseError")

Absent == [exists |-> FALSE, data |-> <<>>]
Content(s) == [exists |-> TRUE, data |-> s]
Garbage == <<"garbage">>

(* what an interrupted or failed std::fs::write can leave behind *)
Prefixes(s) == {SubSeq(s, 1, n) : n \in 0..(Len(s) - 1)}

----------------------------------------------------------------------------
(* enum State *)

Unknown == [tag |-> "Unknown", point |-> NoPoint, reached |-> 0]
Invalid == [tag |-> "Invalid", point |-> NoPoint, reached |-> 0]
AtPoint(p, r) == [tag |-> "AtPoint", point |-> p, reached |-> r]

----------------------------------------------------------------------------
(* The storage backends *)

(* FileStorage::read_cursor on a file system that answers *)
FileRead(f) == IF f.exists THEN parse(f.data) ELSE Err("NotFound")

(* RedisStorage::read_cursor over a connection that answers *)
RedisRead(r) == IF r.exists THEN from_json(r.data) ELSE Err("NotFound")

(* MemoryStorage::read_cursor *)
MemoryRead(c) == Ok(c.point)

(* Storage::read_cursor: every result the call can have.  A file system or a
   connection may also fail the call whatever is stored. *)
read_cursor(c, f, r) ==
    CASE c.kind = "File" -> {FileRead(f), Err("IoError")}
      [] c.kind = "Redis" -> {RedisRead(r), Err("ConnectionError")}
      [] c.kind = "Memory" -> {MemoryRead(c)}

(* the point a healthy read of the persistent backend yields, None if none *)
Stored(c, f, r) ==
    CASE c.kind = "File" -> FileRead(f).point
      [] c.kind = "Redis" -> RedisRead(r).point
      [] c.kind = "Memory" -> MemoryRead(c).point

----------------------------------------------------------------------------
(* Provider *)

(* load_cursor with its error arm leaving the State as new() made it *)
LoadStateErrUnknown(res, n) == IF res.ok THEN AtPoint(res.point, n) ELSE Unknown

(* load_cursor with its Ok arm dropping the point *)
LoadStateDropsPoint(res, n) == Invalid

(* load_cursor's match on the result of read_cursor *)
LoadState(res, n) == IF res.ok THEN AtPoint(res.point, n) ELSE Invalid

(* get_cursor's match on the State *)
GetValue(st) == IF st.tag = "AtPoint" THEN Some(st.point) ELSE None

(* should_update with the comparison turned around *)
should_update_inverted(st, n) ==
    IF st.tag = "AtPoint" THEN n - st.reached < DebounceSecs ELSE TRUE

(* should_update with >= for > *)
should_update_ge(st, n) ==
    IF st.tag = "AtPoint" THEN n - st.reached >= DebounceSecs ELSE TRUE

(* should_update with its `_ => true` arm turned to false *)
should_update_known_only(st, n) ==
    IF st.tag = "AtPoint" THEN n - st.reached > DebounceSecs ELSE FALSE

(* set_cursor's should_update *)
should_update(st, n) ==
    IF st.tag = "AtPoint" THEN n - st.reached > DebounceSecs ELSE TRUE

(* set_cursor writing the backend and leaving the State alone *)
CommitSkipped(p, n) == state

(* set_cursor storing the point and keeping the old reached *)
CommitKeepsReached(p, n) == AtPoint(p, state.reached)

(* the State set_cursor stores once write_cursor has returned Ok *)
Commit(p, n) == AtPoint(p, n)

NoCall == [valid |-> FALSE, point |-> NoPoint, at |-> 0, writes |-> 0, ok |-> FALSE,
           pvalid |-> FALSE, ppoint |-> NoPoint, pwrites |-> 0, pok |-> FALSE,
           near |-> FALSE]

(* the record of a set_cursor(p) that decided at instant a, called write_cursor
   w times and returned Ok (ok) or Err *)
Returned(p, a, w, ok) ==
    [valid |-> TRUE, point |-> p, at |-> a, writes |-> w, ok |-> ok,
     pvalid |-> last.valid, ppoint |-> last.point, pwrites |-> last.writes,
     pok |-> last.ok, near |-> last.valid /\ a - last.at < DebounceSecs]

(* the backends that keep the cursor across restarts *)
Persistent == config.kind \in {"File", "Redis"}

Configs == [kind : {"Memory"}, point : Points]
             \cup [kind : {"File", "Redis"}, point : {NoPoint}]

(* what the backend holds before the first run: nothing, unparsable content,
   or the serialisation ser of the point d an earlier run stored *)
InitialContent(d, corrupt, ser) ==
    IF corrupt THEN Content(Garbage)
    ELSE IF d = NoPoint THEN Absent ELSE Content(ser)

Init ==
    /\ config \in Configs
    /\ phase = "stopped"
    /\ state = Unknown
    /\ writer = NoThread
    /\ pc = [t \in Threads |-> "idle"]
    /\ arg = [t \in Threads |-> NoPoint]
    /\ began = [t \in Threads |-> 0]
    /\ now = 0
    /\ \E d \in {NoPoint, FirstPoint}, corrupt \in BOOLEAN :
          /\ corrupt => d = NoPoint
          /\ config.kind = "Memory" => d = NoPoint /\ ~corrupt
          /\ file = IF config.kind = "File"
                    THEN InitialContent(d, corrupt, to_string(d)) ELSE Absent
          /\ redis = IF config.kind = "Redis"
                     THEN InitialContent(d, corrupt, to_json(d)) ELSE Absent
          /\ durable = d
    /\ tmp = Absent
    /\ loaded = Err("")
    /\ last = NoCall
    /\ got = None

----------------------------------------------------------------------------
(* Provider::new: the Storage is built from the Config, the State is Unknown *)
New ==
    /\ phase = "stopped"
    /\ phase' = "constructed"
    /\ state' = Unknown
    /\ UNCHANGED <<config, writer, pc, arg, began, now, file, tmp, redis,
                   loaded, last, got, durable>>

(* load_cursor, called by initialize on the Provider no thread has yet: the
   one read_cursor of the Provider's life, then the State it yields *)
load_cursor ==
    /\ phase = "constructed"
    /\ \E res \in read_cursor(config, file, redis) :
          /\ loaded' = res
          /\ state' = LoadState(res, now)
    /\ phase' = "ready"
    /\ UNCHANGED <<config, writer, pc, arg, began, now, file, tmp, redis,
                   last, got, durable>>

(* get_cursor reading the State without taking the lock *)
get_cursor_unlocked(t) ==
    /\ phase = "ready"
    /\ pc[t] = "idle"
    /\ got' = GetValue(state)
    /\ UNCHANGED <<config, phase, state, writer, pc, arg, began, now, file, tmp,
                   redis, loaded, last, durable>>

(* get_cursor refreshing `reached` of the State it reads *)
get_cursor_touches(t) ==
    /\ phase = "ready"
    /\ pc[t] = "idle"
    /\ writer = NoThread
    /\ got' = GetValue(state)
    /\ state' = IF state.tag = "AtPoint" THEN AtPoint(state.point, now) ELSE state
    /\ UNCHANGED <<config, phase, writer, pc, arg, began, now, file, tmp,
                   redis, loaded, last, durable>>

(* get_cursor going back to the backend for its answer *)
get_cursor_reloads(t) ==
    /\ phase = "ready"
    /\ pc[t] = "idle"
    /\ writer = NoThread
    /\ \E res \in read_cursor(config, file, redis) :
          /\ loaded' = res
          /\ state' = LoadState(res, now)
          /\ got' = GetValue(LoadState(res, now))
    /\ UNCHANGED <<config, phase, writer, pc, arg, began, now, file, tmp,
                   redis, last, durable>>

(* get_cursor: under the shared side of the lock, so not while a writer holds it *)
get_cursor(t) ==
    /\ phase = "ready"
    /\ pc[t] = "idle"
    /\ writer = NoThread
    /\ got' = GetValue(state)
    /\ UNCHANGED <<config, phase, state, writer, pc, arg, began, now, file, tmp,
                   redis, loaded, last, durable>>

(* the first step of Storage::write_cursor for the configured backend *)
WriteEntry(c) ==
    CASE c.kind = "File" -> "write_tmp"
      [] c.kind = "Redis" -> "redis_set"
      [] c.kind = "Memory" -> "memory_write"

(* set_cursor deciding and writing without the exclusive lock *)
set_cursor_unlocked(t, p) ==
    /\ phase = "ready"
    /\ pc[t] = "idle"
    /\ IF should_update(state, now)
       THEN /\ writer' = t
            /\ pc' = [pc EXCEPT ![t] = WriteEntry(config)]
            /\ arg' = [arg EXCEPT ![t] = p]
            /\ began' = [began EXCEPT ![t] = now]
            /\ UNCHANGED last
       ELSE /\ last' = Returned(p, now, 0, TRUE)
            /\ UNCHANGED <<writer, pc, arg, began>>
    /\ UNCHANGED <<config, phase, state, now, file, tmp, redis, loaded, got, durable>>

(* set_cursor whose debounced path stores the point in the cache *)
set_cursor_caches(t, p) ==
    /\ phase = "ready"
    /\ pc[t] = "idle"
    /\ writer = NoThread
    /\ IF should_update(state, now)
       THEN /\ writer' = t
            /\ pc' = [pc EXCEPT ![t] = WriteEntry(config)]
            /\ arg' = [arg EXCEPT ![t] = p]
            /\ began' = [began EXCEPT ![t] = now]
            /\ UNCHANGED <<last, state>>
       ELSE /\ last' = Returned(p, now, 0, TRUE)
            /\ state' = AtPoint(p, state.reached)
            /\ UNCHANGED <<writer, pc, arg, began>>
    /\ UNCHANGED <<config, phase, now, file, tmp, redis, loaded, got, durable>>

(* set_cursor whose debounced path restarts the window *)
set_cursor_slides(t, p) ==
    /\ phase = "ready"
    /\ pc[t] = "idle"
    /\ writer = NoThread
    /\ IF should_update(state, now)
       THEN /\ writer' = t
            /\ pc' = [pc EXCEPT ![t] = WriteEntry(config)]
            /\ arg' = [arg EXCEPT ![t] = p]
            /\ began' = [began EXCEPT ![t] = now]
            /\ UNCHANGED <<last, state>>
       ELSE /\ last' = Returned(p, now, 0, TRUE)
            /\ state' = AtPoint(state.point, now)
            /\ UNCHANGED <<writer, pc, arg, began>>
    /\ UNCHANGED <<config, phase, now, file, tmp, redis, loaded, got, durable>>

(* set_cursor(p) up to its call of write_cursor: the exclusive lock is taken and
   should_update decided; a debounced call returns Ok at once *)
set_cursor(t, p) ==
    /\ phase = "ready"
    /\ pc[t] = "idle"
    /\ writer = NoThread
    /\ IF should_update(state, now)
       THEN /\ writer' = t
            /\ pc' = [pc EXCEPT ![t] = WriteEntry(config)]
            /\ arg' = [arg EXCEPT ![t] = p]
            /\ began' = [began EXCEPT ![t] = now]
            /\ UNCHANGED last
       ELSE /\ last' = Returned(p, now, 0, TRUE)
            /\ UNCHANGED <<writer, pc, arg, began>>
    /\ UNCHANGED <<config, phase, state, now, file, tmp, redis, loaded, got, durable>>

(* set_cursor after write_cursor returned Ok: the State is stored, the lock
   released and Ok returned *)
SetOk(t) ==
    /\ state' = Commit(arg[t], now)
    /\ last' = Returned(arg[t], began[t], 1, TRUE)
    /\ writer' = NoThread
    /\ pc' = [pc EXCEPT ![t] = "idle"]
    /\ arg' = [arg EXCEPT ![t] = NoPoint]
    /\ began' = [began EXCEPT ![t] = 0]

(* set_cursor storing the State before it looks at write_cursor's result *)
SetErrCommits(t) ==
    /\ state' = Commit(arg[t], now)
    /\ last' = Returned(arg[t], began[t], 1, FALSE)
    /\ writer' = NoThread
    /\ pc' = [pc EXCEPT ![t] = "idle"]
    /\ arg' = [arg EXCEPT ![t] = NoPoint]
    /\ began' = [began EXCEPT ![t] = 0]

(* set_cursor marking the State Invalid when write_cursor fails *)
SetErrInvalidates(t) ==
    /\ state' = Invalid
    /\ last' = Returned(arg[t], began[t], 1, FALSE)
    /\ writer' = NoThread
    /\ pc' = [pc EXCEPT ![t] = "idle"]
    /\ arg' = [arg EXCEPT ![t] = NoPoint]
    /\ began' = [began EXCEPT ![t] = 0]

(* set_cursor after write_cursor returned Err: the ? operator returns it, the
   guard is dropped *)
SetErr(t) ==
    /\ last' = Returned(arg[t], began[t], 1, FALSE)
    /\ writer' = NoThread
    /\ pc' = [pc EXCEPT ![t] = "idle"]
    /\ arg' = [arg EXCEPT ![t] = NoPoint]
    /\ began' = [began EXCEPT ![t] = 0]
    /\ UNCHANGED state

(* FileStorage::write_cursor, std::fs::write of the temporary file: on success
   it holds the whole serialisation, on failure nothing new or a part of it *)
TmpWritten(p) == Content(to_string(p))
TmpTorn(p) == {Content(s) : s \in Prefixes(to_string(p))}

(* write_cursor writing path itself instead of the temporary file *)
FileWriteInPlace(t) ==
    /\ pc[t] = "write_tmp"
    /\ \/ /\ file' = TmpWritten(arg[t])
          /\ pc' = [pc EXCEPT ![t] = "rename"]
          /\ UNCHANGED <<state, last, writer, arg, began>>
       \/ /\ file' \in {file} \cup TmpTorn(arg[t])
          /\ SetErr(t)
    /\ UNCHANGED <<config, phase, now, tmp, redis, loaded, got, durable>>

(* FileStorage::write_cursor, the std::fs::write step *)
FileWriteTmp(t) ==
    /\ pc[t] = "write_tmp"
    /\ \/ /\ tmp' = TmpWritten(arg[t])
          /\ pc' = [pc EXCEPT ![t] = "rename"]
          /\ UNCHANGED <<state, last, writer, arg, began>>
       \/ /\ tmp' \in {tmp} \cup TmpTorn(arg[t])
          /\ SetErr(t)
    /\ UNCHANGED <<config, phase, now, file, redis, loaded, got, durable>>

(* a rename that reports Ok and moves nothing *)
RenamedNothing(f, tm) == [path |-> f, temp |-> tm]

(* FileStorage::write_cursor, std::fs::rename of the temporary file over path *)
Renamed(f, tm) == [path |-> tm, temp |-> Absent]

FileRename(t) ==
    /\ pc[t] = "rename"
    /\ \/ /\ file' = Renamed(file, tmp).path
          /\ tmp' = Renamed(file, tmp).temp
          /\ durable' = arg[t]
          /\ SetOk(t)
       \/ /\ UNCHANGED <<file, tmp, durable>>
          /\ SetErr(t)
    /\ UNCHANGED <<config, phase, now, redis, loaded, got>>

(* RedisStorage::write_cursor: the pool, the connection or the SET may fail *)
RedisSet(r, p) == Content(to_json(p))

RedisWrite(t) ==
    /\ pc[t] = "redis_set"
    /\ \/ /\ redis' = RedisSet(redis, arg[t])
          /\ durable' = arg[t]
          /\ SetOk(t)
       \/ /\ UNCHANGED <<redis, durable>>
          /\ SetErr(t)
    /\ UNCHANGED <<config, phase, now, file, tmp, loaded, got>>

(* a MemoryStorage that keeps the point written *)
MemoryStoredPoint(c, p) == [c EXCEPT !.point = p]

(* MemoryStorage::write_cursor: no operation, Ok *)
MemoryStored(c, p) == c

MemoryWrite(t) ==
    /\ pc[t] = "memory_write"
    /\ config' = MemoryStored(config, arg[t])
    /\ SetOk(t)
    /\ UNCHANGED <<phase, now, file, tmp, redis, loaded, got, durable>>

(* a second of the clock *)
Tick ==
    /\ now < MaxTime
    /\ now' = now + 1
    /\ UNCHANGED <<config, phase, state, writer, pc, arg, began, file, tmp, redis,
                   loaded, last, got, durable>>

(* the process stops at any moment: the Provider and its threads are gone, the
   backend keeps what it holds; a std::fs::write in progress may be cut short *)
Stop ==
    /\ phase # "stopped"
    /\ phase' = "stopped"
    /\ state' = Unknown
    /\ writer' = NoThread
    /\ pc' = [t \in Threads |-> "idle"]
    /\ arg' = [t \in Threads |-> NoPoint]
    /\ began' = [t \in Threads |-> 0]
    /\ tmp' \in {tmp} \cup UNION {TmpTorn(arg[t]) : t \in {u \in Threads : pc[u] = "write_tmp"}}
    /\ loaded' = Err("")
    /\ last' = NoCall
    /\ got' = None
    /\ UNCHANGED <<config, now, file, redis, durable>>

Next ==
    \/ New
    \/ load_cursor
    \/ \E t \in Threads : get_cursor(t)
    \/ \E t \in Threads, p \in Points : set_cursor(t, p)
    \/ \E t \in Threads : FileWriteTmp(t)
    \/ \E t \in Threads : FileRename(t)
    \/ \E t \in Threads : RedisWrite(t)
    \/ \E t \in Threads : MemoryWrite(t)
    \/ Tick
    \/ Stop

Spec == Init /\ [][Next]_vars

(* another party, not this Provider, stores a point under the same path or key *)
ExternalWrite ==
    /\ Persistent
    /\ \E p \in Points :
          /\ file' = IF config.kind = "File" THEN Content(to_string(p)) ELSE file
          /\ redis' = IF config.kind = "Redis" THEN Content(to_json(p)) ELSE redis
          /\ durable' = p
    /\ UNCHANGED <<config, phase, state, writer, pc, arg, began, now, tmp,
                   loaded, last, got>>

NextExt == Next \/ ExternalWrite

(* the Provider beside another writer of the same backend *)
SpecExt == Init /\ [][NextExt]_vars

(* an instant one second further in the past, for a clock that has run to
   MaxTime: instants older than MaxTime seconds are all read as MaxTime old,
   which should_update cannot tell apart since MaxTime > DebounceSecs *)
Back(x) == IF x > 0 THEN x - 1 ELSE 0

(* a second of a clock that never stops *)
TickLive ==
    /\ IF now < MaxTime
       THEN /\ now' = now + 1
            /\ UNCHANGED <<state, began, last>>
       ELSE /\ now' = now
            /\ state' = [state EXCEPT !.reached = Back(@)]
            /\ began' = [t \in Threads |-> Back(began[t])]
            /\ last' = [last EXCEPT !.at = Back(@)]
    /\ UNCHANGED <<config, phase, writer, pc, arg, file, tmp, redis,
                   loaded, got, durable>>

(* a step of write_cursor on a backend that answers and does not fail *)
HealthyWrite(t) ==
    /\ FileWriteTmp(t) \/ FileRename(t) \/ RedisWrite(t) \/ MemoryWrite(t)
    /\ pc'[t] = "rename" \/ last'.ok

SetCalled == \E t \in Threads, p \in Points : set_cursor(t, p)
WriteAnswers == \E t \in Threads : HealthyWrite(t)

NextLive ==
    \/ New
    \/ load_cursor
    \/ \E t \in Threads : get_cursor(t)
    \/ SetCalled
    \/ WriteAnswers
    \/ TickLive

(* one Provider for as long as the process runs: time keeps advancing, the
   backend is healthy and set_cursor keeps being called *)
SpecLive ==
    /\ Init /\ [][NextLive]_vars
    /\ WF_vars(New) /\ WF_vars(load_cursor)
    /\ WF_vars(TickLive)
    /\ WF_vars(SetCalled)
    /\ WF_vars(WriteAnswers)

----------------------------------------------------------------------------
(* Steps of a behaviour, as the claims speak of them *)

(* a set_cursor call returns in this step *)
SetReturns == last' # last /\ last'.valid
(* load_cursor runs in this step *)
Loads == phase = "constructed" /\ phase' = "ready"
(* the time since `reached`, as reached.elapsed() reads it *)
Elapsed == now - state.reached

----------------------------------------------------------------------------
(* C1, as stated: whenever set_cursor(p) returns Ok, debounced or not, the
   cache holds p and a get_cursor that follows returns Some(p). *)
C1_AsStated ==
    [][(SetReturns /\ last'.ok) => GetValue(state') = Some(last'.point)]_vars

(* C1, amended: a set_cursor(p) that wrote the backend and returns Ok leaves the
   State AtPoint{p, now}, so get_cursor returns Some(p); a debounced set_cursor
   returns Ok and leaves the State, and what get_cursor returns, as it was. *)
C1_CacheAfterSet ==
    [][(SetReturns /\ last'.ok) =>
         IF last'.writes = 1
         THEN state' = AtPoint(last'.point, now) /\ GetValue(state') = Some(last'.point)
         ELSE state' = state /\ GetValue(state') = GetValue(state)]_vars

C1_Witness ==
    /\ last.valid /\ last.ok /\ last.writes = 0
    /\ state.tag = "AtPoint"
    /\ GetValue(state) # Some(last.point)

(* C2: a set_cursor whose backend write fails returns the error and leaves the
   State as it was from the moment the call took the lock: same variant, same
   point, same reached; get_cursor returns what it returned before. *)
C2_FailureLeavesState ==
    [][/\ (writer = NoThread /\ writer' # NoThread) => state' = state
       /\ (writer # NoThread /\ writer' = writer) => state' = state
       /\ (SetReturns /\ ~last'.ok) =>
              /\ last'.writes = 1
              /\ state' = state
              /\ GetValue(state') = GetValue(state)]_vars

C2_Witness ==
    /\ last.valid /\ ~last.ok
    /\ state.tag = "AtPoint"
    /\ GetValue(state) # Some(last.point)
    /\ writer = NoThread

(* C3: while the State is AtPoint and fewer than 10 seconds have passed since
   reached, no set_cursor takes the write path: no thread enters write_cursor,
   the backend is untouched, and a set_cursor that returns returns Ok with no
   write_cursor call. *)
C3_DebouncedNoWrite ==
    [][(phase = "ready" /\ state.tag = "AtPoint" /\ Elapsed < DebounceSecs) =>
         /\ writer = NoThread /\ writer' = NoThread
         /\ UNCHANGED <<file, tmp, redis, config, durable>>
         /\ SetReturns => (last'.ok /\ last'.writes = 0)]_vars

C3_Witness ==
    /\ last.valid /\ last.ok /\ last.writes = 0
    /\ last.at = now
    /\ state.tag = "AtPoint" /\ Elapsed < DebounceSecs /\ Elapsed > 0

(* C4, as stated: a set_cursor issued when 10 seconds or more, exactly 10
   included, have passed since reached calls write_cursor exactly once. *)
C4_AsStated ==
    [][(/\ phase = "ready" /\ writer = NoThread
        /\ state.tag = "AtPoint" /\ Elapsed >= DebounceSecs
        /\ SetReturns) => last'.writes = 1]_vars

(* C4, amended: a set_cursor issued when strictly more than 10 seconds have
   passed since reached never returns without writing: it enters write_cursor,
   and returns having called it exactly once.  At exactly 10 seconds the call
   is still debounced. *)
C4_PastWindowWrites ==
    [][/\ (/\ phase = "ready" /\ writer = NoThread
           /\ state.tag = "AtPoint" /\ Elapsed > DebounceSecs) => ~SetReturns
       /\ (/\ phase = "ready" /\ writer = NoThread
           /\ state.tag = "AtPoint" /\ Elapsed = DebounceSecs) =>
              /\ writer' = NoThread
              /\ SetReturns => last'.writes = 0
       /\ (writer # NoThread /\ SetReturns) => last'.writes = 1]_vars

C4_Witness ==
    \E t \in Threads :
        /\ pc[t] # "idle"
        /\ state.tag = "AtPoint"
        /\ began[t] - state.reached > DebounceSecs

(* C5, as stated: on a File or Redis backend, any two consecutive set_cursor
   calls that return Ok, the second fewer than 10 seconds after the first,
   make exactly one backend write between them and leave the first call's
   point in the backend; also when the first follows initialize at once. *)
C5_AsStated ==
    (last.valid /\ last.ok /\ last.pvalid /\ last.pok /\ last.near /\ Persistent) =>
        /\ last.pwrites + last.writes = 1
        /\ Stored(config, file, redis) = last.ppoint

(* C5, amended: on a File or Redis backend, when the first of two consecutive
   Ok set_cursor calls wrote the backend and the second is issued fewer than 10
   seconds after it, the second does not write: one write in all, and the
   backend holds the first call's point. *)
C5_OneWritePerWindow ==
    (/\ last.valid /\ last.ok /\ last.pvalid /\ last.pok /\ last.near
     /\ last.pwrites = 1 /\ Persistent) =>
        /\ last.writes = 0
        /\ Stored(config, file, redis) = last.ppoint

C5_Witness ==
    /\ last.valid /\ last.ok /\ last.pvalid /\ last.pok /\ last.near
    /\ last.pwrites = 1 /\ last.writes = 0 /\ Persistent
    /\ last.point # last.ppoint
    /\ Stored(config, file, redis) = last.ppoint

(* C6: initialize never fails: once the Provider is constructed load_cursor
   can always run, and when its read_cursor returned an error, whichever, the
   Provider is ready with State Invalid and get_cursor returns None. *)
C6_InitializeNeverFails ==
    [][/\ phase = "stopped" => ENABLED New
       /\ phase = "constructed" => ENABLED load_cursor
       /\ (Loads /\ ~loaded'.ok) =>
              /\ loaded'.err \in {"NotFound", "ParseError", "IoError", "ConnectionError"}
              /\ state' = Invalid
              /\ GetValue(state') = None]_vars

C6_Witness ==
    /\ phase = "ready" /\ ~loaded.ok /\ loaded.err = "ParseError"
    /\ state = Invalid /\ ~last.valid

(* C7: when the read_cursor of initialize succeeded with point p, then until a
   set_cursor returns the State is AtPoint with p and get_cursor returns
   Some(p); for Config::Memory(P0), p is P0. *)
C7_LoadedPoint ==
    (phase = "ready" /\ loaded.ok /\ ~last.valid) =>
        /\ state.tag = "AtPoint" /\ state.point = loaded.point
        /\ GetValue(state) = Some(loaded.point)
        /\ got \in {None, Some(loaded.point)}
        /\ config.kind = "Memory" => loaded.point = config.point

C7_Witness ==
    /\ phase = "ready" /\ loaded.ok /\ ~last.valid
    /\ config.kind = "Memory" /\ config.point # FirstPoint
    /\ got = Some(config.point)

(* C8, as stated: on File or Redis, after a stop at any moment and a new
   initialize, get_cursor returns the point of the last backend write that
   took effect, or the value stored before if there was none. *)
C8_AsStated ==
    (phase = "ready" /\ Persistent /\ ~last.valid) => GetValue(state) = durable

(* C8, amended: on File or Redis the backend holds, at every moment, the point
   of the last backend write that took effect (or what was stored before); a
   new initialize whose read_cursor is answered makes get_cursor return it,
   and one whose read_cursor fails on I/O or connection makes get_cursor
   return None; never any other point. *)
C8_RestartResume ==
    Persistent =>
        /\ Stored(config, file, redis) = durable
        /\ (phase = "ready" /\ ~last.valid) =>
              GetValue(state) = IF loaded.err \in {"IoError", "ConnectionError"}
                                THEN None ELSE durable

C8_Witness ==
    /\ phase = "ready" /\ Persistent /\ ~last.valid
    /\ loaded.ok /\ durable # FirstPoint
    /\ GetValue(state) = Some(durable)

(* C9: File atomicity: at every moment, a write in progress, failed or cut
   short by a stop included, path holds the last value whose rename completed
   (or what it held before the run), and never a part of a serialisation. *)
C9_FileAtomic ==
    config.kind = "File" =>
        /\ durable # None => file = Content(to_string(durable))
        /\ durable = None => ~FileRead(file).ok
        /\ \A p \in Points : file \notin TmpTorn(p)

C9_Witness ==
    /\ config.kind = "File" /\ phase = "stopped"
    /\ durable # None
    /\ \E p \in Points : p # durable /\ tmp \in TmpTorn(p) \cup {TmpWritten(p)}
    /\ FileRead(file) = Ok(durable)

(* C10: Memory backend: write_cursor(p) changes nothing and returns Ok, so the
   set_cursor that called it returns Ok; read_cursor has one possible result,
   the point fixed at construction. *)
C10_MemoryWriteNoOp ==
    [][config.kind = "Memory" =>
         /\ config' = config
         /\ read_cursor(config', file', redis') = {Ok(config.point)}
         /\ SetReturns => last'.ok
         /\ UNCHANGED <<file, tmp, redis>>]_vars

C10_Witness ==
    /\ config.kind = "Memory"
    /\ last.valid /\ last.ok /\ last.writes = 1
    /\ last.point # config.point
    /\ read_cursor(config, file, redis) = {Ok(config.point)}

----------------------------------------------------------------------------
(* a thread is inside Storage::write_cursor *)
InWrite(t) == pc[t] \in {"write_tmp", "rename", "redis_set", "memory_write"}
(* the Provider lives through this step *)
Lives == phase = "ready" /\ phase' = "ready"

(* C11, as stated: a thread that calls get_cursor completes the call without
   waiting for any backend write, also while another thread's set_cursor is
   inside write_cursor. *)
C11_AsStated ==
    \A t \in Threads : (phase = "ready" /\ pc[t] = "idle") => ENABLED get_cursor(t)

(* C11, amended: get_cursor does no backend I/O of its own, and it can complete
   exactly when no set_cursor holds the exclusive lock; while another thread's
   set_cursor is inside write_cursor, get_cursor waits for that write. *)
C11_GetWaitsForWriter ==
    [][/\ \A t \in Threads : (phase = "ready" /\ pc[t] = "idle") =>
              (ENABLED get_cursor(t) <=> writer = NoThread)
       /\ \A t \in Threads : InWrite(t) => ~ENABLED get_cursor(CHOOSE u \in Threads : u # t)
       /\ (Lives /\ got' # got) => UNCHANGED <<file, tmp, redis, config, durable, loaded>>]_vars

C11_Witness ==
    \E t \in Threads, u \in Threads :
        /\ t # u /\ phase = "ready"
        /\ pc[t] = "idle" /\ InWrite(u) /\ writer = u
        /\ now > began[u]
        /\ ~ENABLED get_cursor(t)

(* C12: at most one thread is inside write_cursor at any time, that thread
   holds the exclusive lock from its debounce decision to its return, and
   meanwhile no other set_cursor returns, no get_cursor reads, and the State
   the decision was taken on stays as it was until that thread stores it. *)
C12_WritersSerialized ==
    [][/\ Cardinality({t \in Threads : InWrite(t)}) <= 1
       /\ \A t \in Threads : InWrite(t) <=> writer = t
       /\ \A t \in Threads : InWrite(t) => should_update(state, began[t])
       /\ (writer # NoThread /\ Lives) =>
              /\ writer' \in {writer, NoThread}
              /\ got' = got
              /\ SetReturns => (writer' = NoThread /\ last'.writes = 1)
              /\ state' # state => (writer' = NoThread /\ SetReturns /\ last'.ok)]_vars

C12_Witness ==
    \E t \in Threads, u \in Threads :
        /\ t # u /\ pc[t] = "rename" /\ writer = t /\ pc[u] = "idle"
        /\ last.valid /\ now > began[t]
        /\ state.tag = "AtPoint" /\ state.point # arg[t]

(* C13: once initialize has returned the State is Invalid or AtPoint, never
   Unknown; the State changes only in load_cursor, from Unknown to Invalid or
   AtPoint, and in a set_cursor that wrote the backend and returns Ok, from any
   State to AtPoint with its point. *)
C13_StateTransitions ==
    [][/\ phase = "ready" => state.tag \in {"Invalid", "AtPoint"}
       /\ phase # "ready" => state = Unknown
       /\ (state' # state /\ phase' = "ready") =>
              \/ /\ Loads /\ state = Unknown
                 /\ state' = LoadState(loaded', now)
              \/ /\ Lives /\ writer # NoThread /\ SetReturns
                 /\ last'.ok /\ last'.writes = 1
                 /\ state' = AtPoint(last'.point, now)]_vars

C13_Witness ==
    /\ phase = "ready" /\ ~loaded.ok
    /\ state.tag = "AtPoint" /\ last.valid /\ last.ok
    /\ last.pvalid /\ ~last.pok

(* C14: while the Provider lives no step takes the State to Invalid: a State
   AtPoint stays AtPoint, failed backend writes included, so once get_cursor
   has returned Some every get_cursor after it returns Some. *)
C14_NeverBackToInvalid ==
    [][Lives =>
         /\ state.tag = "AtPoint" => state'.tag = "AtPoint"
         /\ got # None => (state.tag = "AtPoint" /\ got' # None)
         /\ (SetReturns /\ ~last'.ok) => state'.tag = state.tag]_vars

C14_Witness ==
    /\ phase = "ready" /\ got # None
    /\ last.valid /\ ~last.ok /\ last.pvalid /\ ~last.pok
    /\ got = GetValue(state)

(* C15: while the State is Invalid every set_cursor goes to the backend,
   whatever the clock reads: none returns without a write_cursor call; one
   that returns Ok leaves AtPoint with its point, and get_cursor then returns
   it; one that returns Err leaves Invalid, so the next one writes again. *)
C15_InvalidAlwaysWrites ==
    [][(phase = "ready" /\ state = Invalid) =>
         /\ should_update(state, now)
         /\ writer = NoThread => ~SetReturns
         /\ (Lives /\ SetReturns) =>
               /\ last'.writes = 1
               /\ IF last'.ok
                  THEN state' = AtPoint(last'.point, now)
                       /\ GetValue(state') = Some(last'.point)
                  ELSE state' = Invalid /\ should_update(state', now')]_vars

C15_Witness ==
    /\ phase = "ready" /\ state = Invalid
    /\ last.valid /\ ~last.ok /\ last.pvalid /\ ~last.pok
    /\ \E t \in Threads : InWrite(t) /\ began[t] > DebounceSecs

(* C16: a get_cursor step touches neither the backend nor the State (variant,
   point, reached) and returns the cached value; what get_cursor would return
   changes only when a set_cursor returns, so repeated get_cursor calls with
   no set_cursor between them return the same value. *)
C16_GetIsPure ==
    [][Lives =>
         /\ got' # got =>
               /\ UNCHANGED <<state, writer, last, loaded>>
               /\ UNCHANGED <<file, tmp, redis, config, durable>>
               /\ got' = GetValue(state)
         /\ ~SetReturns => state' = state]_vars

C16_Witness ==
    /\ phase = "ready" /\ got # None /\ got = GetValue(state)
    /\ state.reached < now /\ last.valid /\ last.point # got

(* C18: on File or Redis, whenever the State is AtPoint{point} the backend
   holds that point: the cache and the persisted cursor agree after any mix of
   written, debounced and failed set_cursor calls. *)
C18_CacheEqualsBackend ==
    (Persistent /\ phase = "ready" /\ state.tag = "AtPoint") =>
        /\ Stored(config, file, redis) = state.point
        /\ durable = state.point

C18_Witness ==
    /\ Persistent /\ phase = "ready" /\ state.tag = "AtPoint"
    /\ last.valid /\ ~last.ok /\ last.point # state.point
    /\ last.pvalid /\ last.pok /\ last.pwrites = 0 /\ last.ppoint # state.point
    /\ Stored(config, file, redis) = state.point

(* C17: the only read_cursor of a Provider's life is the one in initialize: no
   get_cursor or set_cursor step reads the backend, the State changes only to
   the point a set_cursor was given, and until a set_cursor returns get_cursor
   returns what initialize loaded, whatever another party has stored in the
   backend since. *)
C17_OneReadOnly ==
    [][/\ Lives => loaded' = loaded
       /\ loaded' # loaded => (Loads \/ phase' = "stopped")
       /\ (Lives /\ state' # state) =>
              (SetReturns /\ last'.ok /\ state' = AtPoint(last'.point, now))
       /\ (phase = "ready" /\ ~last.valid) =>
              /\ GetValue(state) = IF loaded.ok THEN Some(loaded.point) ELSE None
              /\ got \in {None, GetValue(state)}]_vars

C17_Witness ==
    /\ Persistent /\ phase = "ready" /\ ~last.valid
    /\ loaded.ok /\ got = Some(loaded.point)
    /\ Stored(config, file, redis) # loaded.point

(* C19: `reached` is set only by load_cursor and by a set_cursor whose backend
   write succeeded; a debounced or failed set_cursor leaves it alone, so the
   window does not slide.  And when time keeps advancing, the backend is
   healthy and set_cursor keeps being called, successful backend writes keep
   occurring. *)
(* a set_cursor call returns in this step, debounced or after its write, on
   the clock that never stops too *)
Debounced ==
    /\ writer = NoThread /\ writer' = NoThread
    /\ last' # last /\ last'.valid /\ last'.at = now
Wrote == writer # NoThread /\ writer' = NoThread /\ last'.valid

C19_WindowDoesNotSlide ==
    /\ [][/\ (Lives /\ (Debounced \/ (Wrote /\ ~last'.ok))) =>
                 (state' = state /\ now' = now)
          /\ (Lives /\ state'.reached - now' > state.reached - now) =>
                 (Wrote /\ last'.ok /\ last'.writes = 1 /\ state'.reached = now')
          /\ Loads => state'.reached \in {now', 0}]_vars
    /\ []<><<Wrote /\ last'.ok /\ last'.writes = 1>>_vars

C19_Witness ==
    /\ phase = "ready" /\ state.tag = "AtPoint"
    /\ last.valid /\ last.ok /\ last.writes = 1
    /\ last.pvalid /\ last.pok /\ last.pwrites = 0
    /\ now - last.at < DebounceSecs
    /\ state.reached = now /\ now = MaxTime

====
